---- MODULE Spec2Model ----
(***************************************************************************)
(* Model of brewery-async.py: the pagination loop of get_brewery_count,    *)
(* its asyncio wrapper async_get_brewery_count, the fan-out/join of        *)
(* get_brewery_counts_for_states, and the __main__ block that runs the     *)
(* concurrent version and then the serial version over the same states.    *)
(*                                                                         *)
(* A call of get_brewery_count is a frame.  Frames 1..n are the calls the  *)
(* event loop hands to executor threads (one per element of states);      *)
(* frames n+1..2n are the calls of the serial list comprehension.          *)
(***************************************************************************)
EXTENDS Integers, Sequences, FiniteSets, TLC

(* per_page = 200, the page size sent with every request. *)
per_page == 200

(* Bounds of the model. *)
MaxStates == 2
MaxPage == 3

StateNames == {"maryland", "virginia"}

(* Item counts a successful page may carry; the API never returns more    *)
(* than per_page items.                                                    *)
PageLens == {0, 9, 100, per_page}

VARIABLES
    states,          \* the input list of state names
    pc,              \* position of __main__
    fpc,             \* per frame: position inside get_brewery_count
    page,            \* per frame: local variable page
    count,           \* per frame: local variable count
    requests,        \* per frame: query strings of the GETs issued, in order
    responses,       \* per frame: the responses received, in order
    ret,             \* per frame: the returned dict
    completed,       \* executor frames in the order in which they finished
    results,         \* value returned by get_brewery_counts_for_states
    brewery_counts,  \* the list built by the serial comprehension
    api              \* the API's answer for (state, page), once asked

vars == <<states, pc, fpc, page, count, requests, responses, ret,
          completed, results, brewery_counts, api>>

----------------------------------------------------------------------------
(* Outcomes of req.get(url).                                               *)

(* status_code is the HTTP status, len the number of items of the JSON    *)
(* body; raised says that req.get threw instead of returning (connection  *)
(* error, timeout).  A failed request carries a one-item error body.      *)
OK(n) == [raised |-> FALSE, status_code |-> 200, len |-> n]
Failed == [raised |-> FALSE, status_code |-> 500, len |-> 1]
Raised == [raised |-> TRUE, status_code |-> 0, len |-> 0]

(* Marks a (state, page) nobody has asked for yet. *)
Unasked == [raised |-> FALSE, status_code |-> 0, len |-> 0]

(* The directory is finite: in the bounded model page MaxPage is never a   *)
(* full page, so no request goes beyond it.                                *)
Answers(p) ==
    {Raised, Failed} \cup
    {OK(n) : n \in {m \in PageLens : p < MaxPage \/ m < per_page}}

----------------------------------------------------------------------------
N == Len(states)
Frames == 1..(2 * N)
AsyncFrames == 1..N
SerialFrames == (N + 1)..(2 * N)
StateOf(f) == states[((f - 1) % N) + 1]

NoResult == [state |-> "", brewery_count |-> -1]

StateLists == UNION {[1..n -> StateNames] : n \in 0..MaxStates}

Init ==
    /\ states \in StateLists
    /\ pc = "start"
    /\ fpc = [f \in Frames |-> "new"]
    /\ page = [f \in Frames |-> 0]
    /\ count = [f \in Frames |-> 0]
    /\ requests = [f \in Frames |-> <<>>]
    /\ responses = [f \in Frames |-> <<>>]
    /\ ret = [f \in Frames |-> NoResult]
    /\ completed = <<>>
    /\ results = <<>>
    /\ brewery_counts = <<>>
    /\ api = [k \in StateNames \X (1..MaxPage) |-> Unasked]

----------------------------------------------------------------------------
(* get_brewery_count                                                       *)

(* Variant: paging starts one page too late. *)
FirstPageSkipped == 1 + 1

(* line 37: page = 1 *)
FirstPage == 1

(* line 41: the query part of the URL *)
Url(s, p) == [by_state |-> s, per_page |-> per_page, page |-> p]

(* Variant: the status is not looked at. *)
StatusIgnored(r) == FALSE

(* line 45: response.status_code != 200 *)
NotSuccessful(r) == r.status_code # 200

(* line 52: not breweries *)
NoBreweries(r) == r.len = 0

(* Variant: count = len(breweries), the running total is overwritten. *)
OverwriteCount(c, r) == r.len

(* line 56: count += len(breweries) *)
AddPage(c, r) == c + r.len

(* Variant: len(breweries) <= per_page, a full page ends the loop too. *)
LastPageInclusive(r) == r.len <= per_page

(* Variant: no short-page exit; only a failure or an empty page ends the   *)
(* loop.                                                                   *)
NoShortPageExit(r) == FALSE

(* line 59: len(breweries) < per_page *)
LastPage(r) == r.len < per_page

(* Variant: page += 2, every other page is skipped. *)
SkipPage(p) == p + 2

(* line 63: page += 1 *)
NextPage(p) == p + 1

(* line 66: dict(state=state, brewery_count=count) *)
Result(s, c) == [state |-> s, brewery_count |-> c]

(* A frame may start: an executor frame once the tasks exist, a serial     *)
(* frame when the comprehension reaches its element.                       *)
MayStart(f) ==
    IF f \in AsyncFrames
    THEN pc \in {"async", "async_raised"}
    ELSE pc = "serial" /\ (f = N + 1 \/ fpc[f - 1] = "done")

(* lines 29-38: entry, count = 0, page = 1 *)
Enter(f) ==
    /\ fpc[f] = "new"
    /\ MayStart(f)
    /\ fpc' = [fpc EXCEPT ![f] = "loop"]
    /\ count' = [count EXCEPT ![f] = 0]
    /\ page' = [page EXCEPT ![f] = FirstPage]
    /\ UNCHANGED <<states, pc, requests, responses, ret, completed, results,
                   brewery_counts, api>>

(* lines 41-42: the GET for the current page goes out *)
SendRequest(f) ==
    /\ fpc[f] = "loop"
    /\ fpc' = [fpc EXCEPT ![f] = "wait"]
    /\ requests' = [requests EXCEPT ![f] = Append(@, Url(StateOf(f), page[f]))]
    /\ UNCHANGED <<states, pc, page, count, responses, ret, completed,
                   results, brewery_counts, api>>

Finished(f) == IF f \in AsyncFrames THEN Append(completed, f) ELSE completed

(* lines 42-66: the response arrives; the rest of the iteration runs, and  *)
(* on a break the function returns.  What the API answers depends on the   *)
(* state and the page alone; a network error can hit any request.          *)
Receive(f, r) ==
    /\ fpc[f] = "wait"
    /\ LET k == <<StateOf(f), page[f]>> IN
        IF r = Raised
        THEN api' = api
        ELSE /\ IF api[k] = Unasked THEN r \in Answers(page[f]) ELSE r = api[k]
             /\ api' = [api EXCEPT ![k] = r]
    /\ responses' = [responses EXCEPT ![f] = Append(@, r)]
    /\ IF r.raised
       THEN /\ fpc' = [fpc EXCEPT ![f] = "raised"]
            /\ completed' = Finished(f)
            /\ UNCHANGED <<page, count, ret>>
       ELSE IF NotSuccessful(r) \/ NoBreweries(r)
       THEN /\ fpc' = [fpc EXCEPT ![f] = "done"]
            /\ ret' = [ret EXCEPT ![f] = Result(StateOf(f), count[f])]
            /\ completed' = Finished(f)
            /\ UNCHANGED <<page, count>>
       ELSE IF LastPage(r)
       THEN /\ fpc' = [fpc EXCEPT ![f] = "done"]
            /\ count' = [count EXCEPT ![f] = AddPage(@, r)]
            /\ ret' = [ret EXCEPT ![f] = Result(StateOf(f), AddPage(count[f], r))]
            /\ completed' = Finished(f)
            /\ UNCHANGED page
       ELSE /\ fpc' = [fpc EXCEPT ![f] = "loop"]
            /\ count' = [count EXCEPT ![f] = AddPage(@, r)]
            /\ page' = [page EXCEPT ![f] = NextPage(@)]
            /\ UNCHANGED <<ret, completed>>
    /\ UNCHANGED <<states, pc, requests, results, brewery_counts>>

----------------------------------------------------------------------------
(* get_brewery_counts_for_states and __main__                              *)

(* Variant: the values in completion order, as asyncio.as_completed      *)
(* would deliver them.                                                     *)
GatheredAsCompleted == [i \in 1..Len(completed) |-> ret[completed[i]]]

(* lines 100-103: the values asyncio.gather hands back, in task order *)
Gathered == [i \in 1..N |-> ret[i]]

(* line 118: [get_brewery_count(s) for s in states] *)
SerialList == [i \in 1..N |-> ret[N + i]]

(* Variant: the wait ends with the first awaitable that has a result.     *)
FirstGathered == N = 0 \/ \E f \in AsyncFrames : fpc[f] = "done"

(* line 103: gather completes when every awaitable has a result *)
AllGathered == \A f \in AsyncFrames : fpc[f] = "done"

(* lines 108-112, 100-103: asyncio.run starts the dispatcher, which       *)
(* creates one task per state and awaits gather.                           *)
RunAsync ==
    /\ pc = "start"
    /\ pc' = "async"
    /\ UNCHANGED <<states, fpc, page, count, requests, responses, ret,
                   completed, results, brewery_counts, api>>

(* lines 103-105, 112: gather delivers, the dispatcher returns results *)
GatherReturn ==
    /\ pc = "async"
    /\ AllGathered
    /\ results' = Gathered
    /\ pc' = "serial"
    /\ UNCHANGED <<states, fpc, page, count, requests, responses, ret,
                   completed, brewery_counts, api>>

(* line 103: the first exception of an awaitable is raised out of gather  *)
(* at once; the dispatcher and asyncio.run end with it.                    *)
GatherRaise ==
    /\ pc = "async"
    /\ \E f \in AsyncFrames : fpc[f] = "raised"
    /\ pc' = "async_raised"
    /\ UNCHANGED <<states, fpc, page, count, requests, responses, ret,
                   completed, results, brewery_counts, api>>

(* lines 118-120: the comprehension is complete *)
SerialReturn ==
    /\ pc = "serial"
    /\ \A f \in SerialFrames : fpc[f] = "done"
    /\ brewery_counts' = SerialList
    /\ pc' = "end"
    /\ UNCHANGED <<states, fpc, page, count, requests, responses, ret,
                   completed, results, api>>

(* line 118: an exception of a serial call ends the program *)
SerialRaise ==
    /\ pc = "serial"
    /\ \E f \in SerialFrames : fpc[f] = "raised"
    /\ pc' = "serial_raised"
    /\ UNCHANGED <<states, fpc, page, count, requests, responses, ret,
                   completed, results, brewery_counts, api>>

Next ==
    \/ RunAsync
    \/ \E f \in Frames : Enter(f)
    \/ \E f \in Frames : SendRequest(f)
    \/ \E f \in Frames : \E r \in Answers(page[f]) : Receive(f, r)
    \/ GatherReturn
    \/ GatherRaise
    \/ SerialReturn
    \/ SerialRaise

Spec == Init /\ [][Next]_vars

TypeOK ==
    /\ pc \in {"start", "async", "async_raised", "serial", "serial_raised", "end"}
    /\ \A f \in Frames :
        /\ fpc[f] \in {"new", "loop", "wait", "done", "raised"}
        /\ page[f] \in 0..MaxPage
        /\ count[f] \in 0..(per_page * MaxPage)

----------------------------------------------------------------------------
(* Vocabulary of the properties.                                           *)

RECURSIVE ItemsOf(_)
(* Items of the successful responses of a sequence of responses. *)
ItemsOf(rs) ==
    IF rs = <<>> THEN 0
    ELSE LET r == rs[Len(rs)] IN
         ItemsOf(SubSeq(rs, 1, Len(rs) - 1))
           + (IF ~r.raised /\ r.status_code = 200 THEN r.len ELSE 0)

(* Page p of a directory holding T records, served 200 items a page. *)
Min(a, b) == IF a < b THEN a ELSE b
Max(a, b) == IF a > b THEN a ELSE b
PageOf(T, p) == OK(Min(200, Max(0, T - 200 * (p - 1))))

(* The pages 1..k, each asked for with per_page items. *)
PagesUpTo(f, k) == [j \in 1..k |-> [by_state |-> StateOf(f), per_page |-> 200, page |-> j]]

(* Every response frame f has received is page requests[f][j].page of a    *)
(* directory of T records.                                                 *)
ServedFrom(f, T) ==
    \A j \in 1..Len(responses[f]) : responses[f][j] = PageOf(T, requests[f][j].page)

DispatcherExited == pc \notin {"start", "async"}
DispatcherReturned == pc \in {"serial", "serial_raised", "end"}
Running(f) == fpc[f] \in {"loop", "wait"}

(* C1: when the first non-200 response arrives on page k after k-1 full    *)
(* successful pages, the call has returned normally with the items of      *)
(* pages 1..k-1 as its count, and page k is the last request it made.      *)
C1_FailureStopsWithPartialCount ==
    \A f \in Frames : \A k \in 1..MaxPage :
        ( /\ Len(responses[f]) >= k
          /\ \A j \in 1..(k - 1) : responses[f][j] = OK(200)
          /\ ~responses[f][k].raised
          /\ responses[f][k].status_code # 200 )
        => /\ fpc[f] = "done"
           /\ ret[f] = [state |-> StateOf(f), brewery_count |-> 200 * (k - 1)]
           /\ ret[f].brewery_count = ItemsOf(SubSeq(responses[f], 1, k - 1))
           /\ requests[f] = PagesUpTo(f, k)

C1_Witness ==
    \E f \in Frames :
        /\ responses[f] = <<OK(200), Failed>>
        /\ fpc[f] = "done"
        /\ ret[f].brewery_count = 200

(* C2: once the dispatcher has returned, its list has the length of the    *)
(* input and its i-th element is the state and count of the i-th input     *)
(* state, whatever the order in which the fetches finished.                *)
C2_ResultsInInputOrder ==
    DispatcherReturned =>
        /\ Len(results) = Len(states)
        /\ \A i \in 1..Len(states) :
            /\ results[i].state = states[i]
            /\ results[i].brewery_count = ItemsOf(responses[i])

C2_Witness ==
    /\ DispatcherReturned
    /\ Len(states) = 2
    /\ completed = <<2, 1>>
    /\ states[1] # states[2]
    /\ results[1].brewery_count # results[2].brewery_count

(* C3: with an API answering by (state, page) alone, the results of the    *)
(* concurrent run and of the serial run are the same set.                  *)
C3_ConcurrentEqualsSerial ==
    pc = "end" =>
        {results[i] : i \in 1..Len(results)}
            = {brewery_counts[i] : i \in 1..Len(brewery_counts)}

C3_Witness ==
    /\ pc = "end"
    /\ Len(states) = 2
    /\ states[1] # states[2]
    /\ completed = <<2, 1>>
    /\ brewery_counts[1].brewery_count = 209
    /\ brewery_counts[2].brewery_count = 100

(* C4: the dispatcher has not exited, with a result or with an exception,  *)
(* while the pagination loop of a fetch it started is still running.       *)
C4_NoExitWhileFetchRuns ==
    DispatcherExited => \A f \in AsyncFrames : ~Running(f)

(* C5: for a directory of T = 200 m records, m >= 1, all requests          *)
(* succeeding, the call asks for pages 1..m+1 and no more, has returned    *)
(* once the empty page m+1 has arrived, and returns T.                     *)
C5_ExactMultipleTakesOneMorePage ==
    \A f \in Frames : \A m \in 1..(MaxPage - 1) :
        ServedFrom(f, 200 * m) =>
            /\ Len(requests[f]) <= m + 1
            /\ Len(responses[f]) = m + 1 => fpc[f] = "done"
            /\ fpc[f] = "done" =>
                /\ ret[f].brewery_count = 200 * m
                /\ requests[f] = PagesUpTo(f, m + 1)
                /\ responses[f][m + 1] = OK(0)

C5_Witness ==
    \E f \in Frames :
        /\ fpc[f] = "done"
        /\ responses[f] = <<OK(200), OK(200), OK(0)>>
        /\ ret[f].brewery_count = 400

C7_NoRecordsOneRequest ==
    \A f \in Frames :
        (Len(responses[f]) >= 1 /\ ServedFrom(f, 0)) =>
            /\ fpc[f] = "done"
            /\ ret[f] = [state |-> StateOf(f), brewery_count |-> 0]
            /\ requests[f] = PagesUpTo(f, 1)
            /\ responses[f] = <<OK(0)>>

C7_Witness ==
    \E f \in Frames :
        /\ fpc[f] = "done"
        /\ responses[f] = <<OK(0)>>
        /\ ret[f].brewery_count = 0

(* The mocked API of the example: 100 records on page 1, 9 on page 2, none *)
(* after.                                                                  *)
MockPage(p) == IF p = 1 THEN OK(100) ELSE IF p = 2 THEN OK(9) ELSE OK(0)

(* C8: for states = ["maryland"] against the mocked API, the result is     *)
(* maryland with count 109.                                                *)
C8_MarylandExample ==
    ( /\ states = <<"maryland">>
      /\ DispatcherReturned
      /\ \A j \in 1..Len(responses[1]) :
            responses[1][j] = MockPage(requests[1][j].page) )
    => results = <<[state |-> "maryland", brewery_count |-> 109]>>

LastItems(f) ==
    LET r == responses[f][Len(responses[f])] IN
    IF ~r.raised /\ r.status_code = 200 THEN r.len ELSE 0

C10_State ==
    \A f \in Frames :
        /\ fpc[f] = "loop" => count[f] = 200 * (page[f] - 1)
        /\ count[f] >= 0
        /\ fpc[f] = "done" =>
            /\ LastItems(f) \in 0..199
            /\ ret[f].brewery_count
                 = 200 * (requests[f][Len(requests[f])].page - 1) + LastItems(f)

====
